---------------------------- MODULE Spec2Model ----------------------------
(***************************************************************************)
(* String pool allocators of StringBenchmarkStlAtlPool.                    *)
(*                                                                         *)
(*   CStringPoolAllocator  (StringPool.h)   chunks from VirtualAlloc,      *)
(*                                          chained by ChunkHeader         *)
(*   StringPoolAllocator   (StringPool.hpp) chunks in a std::vector<Chunk> *)
(*                                                                         *)
(* One behaviour follows one allocator object (variable "variant") from    *)
(* its construction to its destruction.  Memory is a flat byte address     *)
(* space; a WCHAR cell lives at the byte address of its first byte.        *)
(*                                                                         *)
(* Sizes are scaled down so that the memory fits in a state.  The scaled   *)
(* values keep the order relations of the source values:                   *)
(*   kMaxStringLengthCch < kChunkSizeCch           (100000 < 250000)       *)
(*   capacity of a default one-granule chunk < kchMaxCharAlloc             *)
(*   kcbDefaultMinChunkSize is a multiple of dwAllocationGranularity       *)
(*   32000 (the floor asserted on the minimum chunk size) is less than     *)
(*   kcbDefaultMinChunkSize                                                *)
(* and, as in the source with its default minimum chunk size, the free     *)
(* tail of a default-sized chunk never exceeds kchMaxCharAlloc.            *)
(* With the scaled dwAllocationGranularity a caller of                     *)
(* CStringPoolAllocator(SIZE_T) can obtain chunks of exactly 16 slots.     *)
(***************************************************************************)
EXTENDS Integers, Sequences, FiniteSets, TLC

\* ------------------------------------------------------------------------
\* Bounds of the model
\* ------------------------------------------------------------------------
\* Number of AllocString calls made on the allocator before it is destroyed.
MaxAllocs == 4
\* Depth at which the model cuts the recursion of AllocString (the code has
\* no such limit; a call that reaches it is reported as "diverged").
MaxDepth == 3

\* ------------------------------------------------------------------------
\* Program and platform constants (scaled, see above)
\* ------------------------------------------------------------------------
NULL == 0
NUL == "NUL"                  \* L'\0'
sizeofWCHAR == 2              \* sizeof(WCHAR)
sizeofChunkHeader == 8        \* sizeof(ChunkHeader), 32-bit build: pointer + SIZE_T
SizeBits == 16                \* width of SIZE_T, scaled (32 in that build)
SizeMod == 2 ^ SizeBits
kcbDefaultMinChunkSize == 4   \* 512 * 1024 in the source
kchMaxCharAlloc == 14         \* 1024 * 1024 in the source
dwAllocationGranularity == 4  \* SYSTEM_INFO::dwAllocationGranularity (65536)
kMaxStringLengthCch == 4      \* 100 * 1000 in the source
kChunkSizeCch == 10           \* 250 * 1000 in the source
kcbMinChunkFloor == 2         \* 32000 in _ASSERTE(cbMinChunkSize >= 32000)

\* Minimum chunk sizes a caller may pass to CStringPoolAllocator(SIZE_T):
\* one that holds more than kchMaxCharAlloc characters (chunks of 16 slots),
cbLargeMinChunkSize == (kchMaxCharAlloc + 2) * sizeofWCHAR
\* one so large that rounding a chunk size up to the granularity wraps,
cbHugeMinChunkSize == SizeMod - 2 * sizeofChunkHeader
\* one that with the header wraps to zero,
cbZeroGranMinChunkSize == SizeMod - sizeofChunkHeader
\* and one that with the header wraps to a small number.
cbWrapMinChunkSize == SizeMod - dwAllocationGranularity

Max(a, b) == IF a >= b THEN a ELSE b

\* ------------------------------------------------------------------------
\* Inputs
\* ------------------------------------------------------------------------
\* Longest source: one character more than either limit admits.
MaxSrcLen == Max(kchMaxCharAlloc, kMaxStringLengthCch)
\* The characters [pchBegin, pchEnd) of the calls: the empty range, short
\* strings, one over kMaxStringLengthCch, and the longest two.
Letters == <<"c", "d", "e", "f", "g", "h", "i", "j", "k", "l", "m", "n", "o", "p">>
Sources ==
    { << >>, <<"a">>, <<"a", "b">>, <<"a", "b", "c", "d", "e", "f">>,
      SubSeq(Letters, 1, MaxSrcLen - 1), SubSeq(Letters, 1, MaxSrcLen) }
\* The buffers pszSource of the calls of AllocString(pszSource): each holds a
\* NUL; one holds characters after it.
SzSources ==
    { <<NUL>>, <<"a", "b", NUL>>, <<"a", NUL, "b", "a", NUL>>,
      SubSeq(Letters, 1, MaxSrcLen) \o <<NUL>> }
\* What the system answers to a request for memory during a call.
SysOutcomes == {"ok", "chunk_fail", "vector_fail"}

VARIABLES
    variant,          \* "Win32" (CStringPoolAllocator) or "STL" (StringPoolAllocator)
    alive,            \* the allocator object is within its lifetime
    m_pchNext,        \* first available slot in the current chunk
    m_pchLimit,       \* one past the last slot of the current chunk
    m_phdrCurrent,    \* CStringPoolAllocator: current chunk header
    m_cbGranularity,  \* CStringPoolAllocator: allocation granularity
    ctorMinChunkSize, \* CStringPoolAllocator: the constructor's argument
    m_chunks,         \* StringPoolAllocator: std::vector<Chunk>, as
                      \*   [elems, cap, buf]: elements, capacity, buffer identity
    m_pCurrent,       \* StringPoolAllocator: Chunk* as [buf, idx]
    heap,             \* the process' memory: [mem, hdrs, regions, brk, nbuf, oob, uaf,
                      \*   asrt, trace]
    strs,             \* the pointers returned so far, with their sources
    last,             \* the last operation and its outcome
    nCalls            \* number of AllocString calls made

vars == <<variant, alive, m_pchNext, m_pchLimit, m_phdrCurrent, m_cbGranularity,
          ctorMinChunkSize, m_chunks, m_pCurrent, heap, strs, last, nCalls>>

\* ------------------------------------------------------------------------
\* The process' memory
\* ------------------------------------------------------------------------
\* heap.mem     : byte address of a WCHAR cell -> character, for the cells of
\*                every block that is allocated and not released
\* heap.hdrs    : address of a chunk -> its ChunkHeader [phdrPrev, cbSize]
\* heap.regions : the blocks obtained from the system, in order of acquisition,
\*                [base, cb, released]: released counts the releases of the block
\* heap.brk     : lowest address the system has not handed out
\* heap.nbuf    : number of vector buffers handed out
\* heap.oob     : a write fell outside allocated memory
\* heap.uaf     : a released block was read
\* heap.asrt    : _ASSERTE(psz[cch - 1] == L'\0') has failed
\* heap.trace   : the reads of chunk headers and the releases of blocks made
\*                by Destroy, in order, as [op, p]
FirstBase == 4 * dwAllocationGranularity

InitHeap ==
    [mem |-> << >>, hdrs |-> << >>, regions |-> << >>, brk |-> FirstBase,
     nbuf |-> 0, oob |-> FALSE, uaf |-> FALSE, asrt |-> FALSE, trace |-> << >>]

\* p + n for a WCHAR* p
PtrAdd(p, n) == p + n * sizeofWCHAR
\* q - p for two WCHAR*
PtrDiff(q, p) == (q - p) \div sizeofWCHAR

\* Cells that are not cleared: each holds what was there, here the character x
ZeroCells_notCleared(lo, hi) ==
    [a \in {PtrAdd(lo, i) : i \in 0..(PtrDiff(hi, lo) - 1)} |-> "x"]

\* The cells of [lo, hi), all NUL
ZeroCells(lo, hi) ==
    [a \in {PtrAdd(lo, i) : i \in 0..(PtrDiff(hi, lo) - 1)} |-> NUL]

\* A block of cb bytes from the system; the character cells of [lo, base + cb)
\* are zero-initialized, lo = base + hdr.
SysAcquire(h, cb, hdr) ==
    LET base == h.brk
    IN  [h EXCEPT !.regions = Append(@, [base |-> base, cb |-> cb, released |-> 0]),
                  !.brk = ((base + cb + dwAllocationGranularity - 1)
                              \div dwAllocationGranularity) * dwAllocationGranularity,
                  !.mem = ZeroCells(base + hdr, base + cb) @@ @]

\* Release of the block at address p. Releasing no block (null, or an address
\* that is not the base of a block) fails and changes nothing.
SysRelease(h, p) ==
    LET hit == {i \in DOMAIN h.regions : h.regions[i].base = p}
    IN  IF hit = {} THEN h
        ELSE LET i == CHOOSE j \in hit : TRUE
                 r == h.regions[i]
             IN  [h EXCEPT !.regions[i].released = @ + 1,
                           !.mem = [a \in {x \in DOMAIN h.mem :
                                             ~(r.base <= x /\ x < r.base + r.cb)}
                                    |-> h.mem[a]]]

\* wmemcpy(psz, pchBegin, n): the n characters of src to psz, psz + 1, ...
wmemcpy(h, psz, src, n) ==
    LET dst == {PtrAdd(psz, i) : i \in 0..(n - 1)}
    IN  [h EXCEPT !.mem = [a \in DOMAIN h.mem |->
                             IF a \in dst THEN src[PtrDiff(a, psz) + 1] ELSE h.mem[a]],
                  !.oob = @ \/ ~(dst \subseteq DOMAIN h.mem)]

\* The NUL-terminated string at p, as wcscmp or wcslen read it: the characters
\* up to the first NUL; <<"?">> is appended when the read leaves allocated memory.
RECURSIVE ReadStr(_, _)
ReadStr(mem, p) ==
    IF p \notin DOMAIN mem THEN <<"?">>
    ELSE IF mem[p] = NUL THEN << >>
    ELSE <<mem[p]>> \o ReadStr(mem, PtrAdd(p, 1))

\* wcslen that counts the terminator
RECURSIVE wcslen_withTerminator(_)
wcslen_withTerminator(buf) ==
    IF buf = << >> \/ Head(buf) = NUL THEN 1 ELSE 1 + wcslen_withTerminator(Tail(buf))

\* wcslen(pszSource) on the buffer buf that starts at pszSource: the number of
\* characters before the first NUL (a buffer without NUL is read to its end).
RECURSIVE wcslen(_)
wcslen(buf) ==
    IF buf = << >> \/ Head(buf) = NUL THEN 0 ELSE 1 + wcslen(Tail(buf))

\* The characters of [pszSource, pszSource + n)
Range(buf, n) == SubSeq(buf, 1, n)

\* ------------------------------------------------------------------------
\* CStringPoolAllocator (StringPool.h)
\* ------------------------------------------------------------------------
\* An allocator object and the memory it works on travel together as a record
\*   [next, limit, phdr, gran, chunks, pcur, heap].

\* RoundUp that always goes to the next multiple
RoundUp_next(cb, units) == (((cb \div units) + 1) * units) % SizeMod

\* RoundUp that rounds down
RoundUp_down(cb, units) == ((cb \div units) * units) % SizeMod

\* return ((cb + units - 1) / units) * units;  in SIZE_T arithmetic
RoundUp(cb, units) == ((((cb + units - 1) % SizeMod) \div units) * units) % SizeMod

GetAllocationGranularity(cbMinChunkSize) ==
    RoundUp((sizeofChunkHeader + cbMinChunkSize) % SizeMod, dwAllocationGranularity)

\* VirtualAlloc(nullptr, cb, MEM_COMMIT, PAGE_READWRITE): [p, heap], p null on
\* failure. A request for zero bytes fails.
VirtualAlloc(h, cb, sys) ==
    IF sys # "ok" \/ cb = 0 THEN [p |-> NULL, heap |-> h]
    ELSE [p |-> h.brk, heap |-> SysAcquire(h, cb, sizeofChunkHeader)]

\* VirtualFree(p, 0, MEM_RELEASE)
VirtualFree(h, p) == SysRelease(h, p)

\* _ASSERTE(psz[cch - 1] == L'\0'): the heap, with the failure recorded. The
\* assertion reads the cell and changes nothing.
AssertNul(h, p) ==
    [h EXCEPT !.asrt = @ \/ (p \notin DOMAIN h.mem) \/ (p \in DOMAIN h.mem /\ h.mem[p] # NUL)]

\* Fits that leaves the terminator out of the count
Fits_withoutTerminator(a, cch) == PtrAdd(a.next, cch - 1) <= a.limit

\* Fits with a strict comparison
Fits_strict(a, cch) == PtrAdd(a.next, cch) < a.limit

\* if (m_pchNext + cch <= m_pchLimit)
\* Before the first chunk both pointers are null; the sum is then computed on
\* the null address, as the builds of this code do: 0 + cch slots > 0. The sum
\* is an address: it wraps at the width of a pointer.
Fits(a, cch) == PtrAdd(a.next, cch) % SizeMod <= a.limit

\* FastPath that takes psz after the pointer increase
FastPath_returnsAdvanced(a, src, cch) ==
    LET psz == PtrAdd(a.next, cch)
        h1 == IF cch > 1 THEN wmemcpy(a.heap, psz, src, cch - 1) ELSE a.heap
        h2 == AssertNul(h1, PtrAdd(psz, cch - 1))
    IN  [a |-> [a EXCEPT !.next = PtrAdd(a.next, cch), !.heap = h2], psz |-> psz]

\* FastPath with the cursor advanced by the copied characters only
FastPath_abut(a, src, cch) ==
    LET psz == a.next
        h1 == IF cch > 1 THEN wmemcpy(a.heap, psz, src, cch - 1) ELSE a.heap
        h2 == AssertNul(h1, PtrAdd(psz, cch - 1))
    IN  [a |-> [a EXCEPT !.next = PtrAdd(a.next, cch - 1), !.heap = h2], psz |-> psz]

\* FastPath without the pointer increase
FastPath_noAdvance(a, src, cch) ==
    LET psz == a.next
        h1 == IF cch > 1 THEN wmemcpy(a.heap, psz, src, cch - 1) ELSE a.heap
        h2 == AssertNul(h1, PtrAdd(psz, cch - 1))
    IN  [a |-> [a EXCEPT !.heap = h2], psz |-> psz]

\* The fast path: carve cch slots from the current chunk and copy the source.
\* [a, psz]
FastPath(a, src, cch) ==
    LET psz == a.next
        h1 == IF cch > 1 THEN wmemcpy(a.heap, psz, src, cch - 1) ELSE a.heap
        h2 == AssertNul(h1, PtrAdd(psz, cch - 1))
    IN  [a |-> [a EXCEPT !.next = PtrAdd(a.next, cch), !.heap = h2], psz |-> psz]

\* LinkChunk that links the new chunk to itself
LinkChunk_selfLink(a, pbNext, cbAlloc) ==
    [a EXCEPT !.heap.hdrs = (pbNext :> [phdrPrev |-> pbNext, cbSize |-> cbAlloc]) @@ @,
              !.phdr = pbNext,
              !.next = pbNext + sizeofChunkHeader,
              !.limit = pbNext + cbAlloc]

\* LinkChunk that forgets the previous chunk
LinkChunk_noPrev(a, pbNext, cbAlloc) ==
    [a EXCEPT !.heap.hdrs = (pbNext :> [phdrPrev |-> NULL, cbSize |-> cbAlloc]) @@ @,
              !.phdr = pbNext,
              !.next = pbNext + sizeofChunkHeader,
              !.limit = pbNext + cbAlloc]

\* LinkChunk that adds cbAlloc to the limit as a count of WCHARs, not of bytes
LinkChunk_limitInWchars(a, pbNext, cbAlloc) ==
    [a EXCEPT !.heap.hdrs = (pbNext :> [phdrPrev |-> a.phdr, cbSize |-> cbAlloc]) @@ @,
              !.phdr = pbNext,
              !.next = pbNext + sizeofChunkHeader,
              !.limit = PtrAdd(pbNext, cbAlloc)]

\* Hook the newly allocated chunk to the current linked list
LinkChunk(a, pbNext, cbAlloc) ==
    [a EXCEPT !.heap.hdrs = (pbNext :> [phdrPrev |-> a.phdr, cbSize |-> cbAlloc]) @@ @,
              !.phdr = pbNext,
              !.next = pbNext + sizeofChunkHeader,
              !.limit = pbNext + cbAlloc]

\* SlowPath with the new block hooked before the null check
SlowPath_hookBeforeCheck(a, cch, sys) ==
    IF cch > kchMaxCharAlloc
    THEN [err |-> "AllocationTooLarge", a |-> a]
    ELSE IF a.gran = 0
    THEN [err |-> "DivideByZero", a |-> a]
    ELSE LET cbAlloc == RoundUp((cch * sizeofWCHAR + sizeofChunkHeader) % SizeMod,
                                a.gran)
             v == VirtualAlloc(a.heap, cbAlloc, sys)
             hooked == [a EXCEPT !.heap = v.heap,
                                 !.phdr = v.p,
                                 !.next = v.p + sizeofChunkHeader,
                                 !.limit = v.p + cbAlloc]
         IN  IF v.p = NULL
             THEN [err |-> "OutOfMemory", a |-> hooked]
             ELSE [err |-> "none",
                   a |-> LinkChunk([a EXCEPT !.heap = v.heap], v.p, cbAlloc)]

\* The slow path up to the retry: the length check, the new block and its
\* hooking. [err, a]: err names the throw site, or is "none" with the new chunk
\* current in a. With a granularity of zero RoundUp divides by zero: an integer
\* division by zero stops the program ("DivideByZero").
SlowPath(a, cch, sys) ==
    IF cch > kchMaxCharAlloc
    THEN [err |-> "AllocationTooLarge", a |-> a]
    ELSE IF a.gran = 0
    THEN [err |-> "DivideByZero", a |-> a]
    ELSE LET cbAlloc == RoundUp((cch * sizeofWCHAR + sizeofChunkHeader) % SizeMod,
                                a.gran)
             v == VirtualAlloc(a.heap, cbAlloc, sys)
         IN  IF v.p = NULL
             THEN [err |-> "OutOfMemory", a |-> a]
             ELSE [err |-> "none",
                   a |-> LinkChunk([a EXCEPT !.heap = v.heap], v.p, cbAlloc)]

\* AllocString(pchBegin, pchEnd) on the characters src of [pchBegin, pchEnd).
\* [a, psz, err, retries]: err is "none", or names the throw site; retries is
\* the number of recursive calls made.
RECURSIVE CAllocString(_, _, _, _)
CAllocString(a, src, sys, depth) ==
    LET cch == (Len(src) + 1) % SizeMod
    IN  IF Fits(a, cch)
        THEN LET f == FastPath(a, src, cch)
             IN  [a |-> f.a, psz |-> f.psz, err |-> "none", retries |-> depth]
        ELSE LET s == SlowPath(a, cch, sys)
             IN  IF s.err # "none"
                 THEN [a |-> s.a, psz |-> NULL, err |-> s.err, retries |-> depth]
                 ELSE IF depth >= MaxDepth
                 THEN [a |-> s.a, psz |-> NULL, err |-> "diverged", retries |-> depth]
                 ELSE CAllocString(s.a, src, sys, depth + 1)

\* AllocString(pszSource) on the buffer buf at pszSource
CAllocStringSz(a, buf, sys) == CAllocString(a, Range(buf, wcslen(buf)), sys, 0)

\* A caller's buffer, below the blocks of the system
pchCaller == FirstBase \div 2

\* Calls of AllocString(pchBegin, pchEnd) outside its contract: both pointers
\* null, and pchEnd one and two characters before pchBegin.
InvalidRanges ==
    { [pchBegin |-> NULL, pchEnd |-> NULL],
      [pchBegin |-> PtrAdd(pchCaller, 1), pchEnd |-> pchCaller],
      [pchBegin |-> PtrAdd(pchCaller, 2), pchEnd |-> pchCaller] }

\* The input assertions without the comparison of the two pointers
AssertRange_nullOnly(r) == r.pchBegin # NULL /\ r.pchEnd # NULL

\* _ASSERTE(pchBegin != nullptr); _ASSERTE(pchEnd != nullptr);
\* _ASSERTE(pchBegin <= pchEnd);
AssertRange(r) == r.pchBegin # NULL /\ r.pchEnd # NULL /\ r.pchBegin <= r.pchEnd

\* _ASSERTE(pszSource != nullptr)
AssertSource(pszSource) == pszSource # NULL

\* const SIZE_T cch = pchEnd - pchBegin + 1;
RangeCch(r) == (PtrDiff(r.pchEnd, r.pchBegin) + 1) % SizeMod

\* A call that a failed _ASSERTE has stopped: the program ends in the call.
AssertionFailed(a) ==
    [a |-> a, psz |-> NULL, err |-> "AssertionFailed", retries |-> 0, cch |-> 0]

\* A call that faults on a read of the null address: wcslen(nullptr).
NullRead(a) ==
    [a |-> a, psz |-> NULL, err |-> "AccessViolation", retries |-> 0, cch |-> 0]

\* The fast path of a call whose range is not [pchBegin, pchEnd) of a buffer.
\* With cch <= 1 nothing is copied. With a larger cch the pointer is moved and
\* wmemcpy copies cch - 1 characters, nearly the whole address space: it
\* writes over what follows psz and faults, the program ends in the call.
FastPathOutside(a, cch, depth) ==
    IF cch > 1
    THEN [a |-> [a EXCEPT !.next = PtrAdd(a.next, cch) % SizeMod, !.heap.oob = TRUE],
          psz |-> NULL, err |-> "AccessViolation", retries |-> depth, cch |-> cch]
    ELSE LET f == FastPath(a, << >>, cch)
         IN  [a |-> f.a, psz |-> f.psz, err |-> "none", retries |-> depth, cch |-> cch]

\* AllocString(pchBegin, pchEnd) past its assertions, for a range r of
\* InvalidRanges. [a, psz, err, retries, cch]
RECURSIVE CAllocStringRange(_, _, _, _)
CAllocStringRange(a, r, sys, depth) ==
    LET cch == RangeCch(r)
    IN  IF Fits(a, cch)
        THEN FastPathOutside(a, cch, depth)
        ELSE LET sl == SlowPath(a, cch, sys)
             IN  IF sl.err # "none"
                 THEN [a |-> sl.a, psz |-> NULL, err |-> sl.err, retries |-> depth,
                       cch |-> cch]
                 ELSE IF depth >= MaxDepth
                 THEN [a |-> sl.a, psz |-> NULL, err |-> "diverged", retries |-> depth,
                       cch |-> cch]
                 ELSE CAllocStringRange(sl.a, r, sys, depth + 1)

\* AllocString(pchBegin, pchEnd) with its assertions. stops: a failed _ASSERTE
\* stops the program (a debug build); otherwise the assertion is compiled out
\* or its failure is ignored, and the call goes on.
CAllocStringAsserted(a, r, sys, stops) ==
    IF stops /\ ~AssertRange(r) THEN AssertionFailed(a)
    ELSE CAllocStringRange(a, r, sys, 0)

\* AllocString(pszSource) with a null pszSource: the assertion, then
\* wcslen(pszSource) reads the null address before AllocString is entered.
CAllocStringSzAsserted(a, pszSource, stops) ==
    IF stops /\ ~AssertSource(pszSource) THEN AssertionFailed(a)
    ELSE NullRead(a)

\* The chunks reached from phdr through the phdrPrev links, current first.
RECURSIVE Chain(_, _, _)
Chain(hdrs, phdr, fuel) ==
    IF phdr = NULL \/ fuel = 0 \/ phdr \notin DOMAIN hdrs THEN << >>
    ELSE <<phdr>> \o Chain(hdrs, hdrs[phdr].phdrPrev, fuel - 1)

\* Is the block at p released?
Released(h, p) == \E i \in DOMAIN h.regions :
                     h.regions[i].base = p /\ h.regions[i].released > 0

\* The loop of the original code: VirtualFree(hdr.m_phdrPrev, hdr.m_cb, MEM_RELEASE)
RECURSIVE DestroyLoop_original(_, _, _)
DestroyLoop_original(h, phdr, fuel) ==
    IF phdr = NULL \/ fuel = 0 THEN h
    ELSE LET hdr == h.hdrs[phdr]
             h0 == [h EXCEPT !.uaf = @ \/ Released(h, phdr),
                             !.trace = Append(@, [op |-> "read", p |-> phdr])]
             h1 == [VirtualFree(h0, hdr.phdrPrev) EXCEPT
                       !.trace = Append(@, [op |-> "free", p |-> hdr.phdrPrev])]
         IN  DestroyLoop_original(h1, hdr.phdrPrev, fuel - 1)

\* The loop with the block released before its header is copied
RECURSIVE DestroyLoop_freeFirst(_, _, _)
DestroyLoop_freeFirst(h, phdr, fuel) ==
    IF phdr = NULL \/ fuel = 0 THEN h
    ELSE LET h0 == [VirtualFree(h, phdr) EXCEPT
                       !.trace = Append(@, [op |-> "free", p |-> phdr])]
             hdr == h0.hdrs[phdr]
             h1 == [h0 EXCEPT !.uaf = @ \/ Released(h0, phdr),
                              !.trace = Append(@, [op |-> "read", p |-> phdr])]
         IN  DestroyLoop_freeFirst(h1, hdr.phdrPrev, fuel - 1)

\* The loop of Destroy from phdr on: the heap after it.
RECURSIVE DestroyLoop(_, _, _)
DestroyLoop(h, phdr, fuel) ==
    IF phdr = NULL \/ fuel = 0 THEN h
    ELSE LET hdr == h.hdrs[phdr]                     \* ChunkHeader hdr = *phdr;
             h0 == [h EXCEPT !.uaf = @ \/ Released(h, phdr),
                             !.trace = Append(@, [op |-> "read", p |-> phdr])]
             phdrPrev == hdr.phdrPrev
             h1 == [VirtualFree(h0, phdr) EXCEPT
                       !.trace = Append(@, [op |-> "free", p |-> phdr])]
         IN  DestroyLoop(h1, phdrPrev, fuel - 1)

\* Destroy(): release every chunk of the list and reset the pointers.
Destroy(a) ==
    [a EXCEPT !.heap = DestroyLoop(a.heap, a.phdr, 2 * Len(a.heap.regions) + 1),
              !.next = NULL, !.limit = NULL, !.phdr = NULL]

\* ------------------------------------------------------------------------
\* StringPoolAllocator (StringPool.hpp)
\* ------------------------------------------------------------------------
NullChunkPtr == [buf |-> 0, idx |-> 0]          \* Chunk* nullptr
EmptyVector == [elems |-> << >>, cap |-> 0, buf |-> 0]

\* Chunk::Chunk(): the storage from make_unique<wchar_t[]>(kChunkSizeCch),
\* cleared. [ok, chunk, heap]; ok is FALSE when the allocation throws.
NewChunk(h, sys) ==
    IF sys = "chunk_fail"
    THEN [ok |-> FALSE, chunk |-> [m_pool |-> NULL, m_poolSizeCch |-> 0], heap |-> h]
    ELSE LET h1 == SysAcquire(h, kChunkSizeCch * sizeofWCHAR, 0)
             c == [m_pool |-> h.brk, m_poolSizeCch |-> kChunkSizeCch]
             \* std::fill(BasePtr(), EndPtr(), L'\0')
             fill == ZeroCells(c.m_pool, PtrAdd(c.m_pool, c.m_poolSizeCch))
         IN  [ok |-> TRUE, chunk |-> c, heap |-> [h1 EXCEPT !.mem = fill @@ @]]

BasePtr(c) == c.m_pool
EndPtr(c) == PtrAdd(c.m_pool, c.m_poolSizeCch)

\* Chunk::~Chunk(): the unique_ptr releases the storage it holds, if any.
DeleteChunk(h, c) == IF c.m_pool = NULL THEN h ELSE SysRelease(h, c.m_pool)

\* push_back whose reallocation destroys the first Chunk it has moved from as
\* if that Chunk still owned its storage
push_back_destroysMoved(v, h, c, sys) ==
    IF Len(v.elems) < v.cap
    THEN [ok |-> TRUE, v |-> [v EXCEPT !.elems = Append(@, c)], heap |-> h]
    ELSE IF sys = "vector_fail"
    THEN [ok |-> FALSE, v |-> v, heap |-> h]
    ELSE [ok |-> TRUE,
          v |-> [elems |-> Append(v.elems, c),
                 cap |-> Max(v.cap + (v.cap \div 2), Len(v.elems) + 1),
                 buf |-> h.nbuf + 1],
          heap |-> [(IF v.elems = << >> THEN h ELSE DeleteChunk(h, v.elems[1]))
                       EXCEPT !.nbuf = @ + 1]]

\* std::vector<Chunk>::push_back(Chunk&&). With spare capacity the element is
\* move-constructed in place. Otherwise a larger buffer is allocated (which may
\* throw, leaving the vector as it was), the elements are moved to it and the
\* old buffer is freed: every Chunk object changes address, its m_pool does not.
\* [ok, v, heap]
push_back(v, h, c, sys) ==
    IF Len(v.elems) < v.cap
    THEN [ok |-> TRUE, v |-> [v EXCEPT !.elems = Append(@, c)], heap |-> h]
    ELSE IF sys = "vector_fail"
    THEN [ok |-> FALSE, v |-> v, heap |-> h]
    ELSE [ok |-> TRUE,
          v |-> [elems |-> Append(v.elems, c),
                 cap |-> Max(v.cap + (v.cap \div 2), Len(v.elems) + 1),
                 buf |-> h.nbuf + 1],
          heap |-> [h EXCEPT !.nbuf = @ + 1]]

\* BackPtr taking the first element
BackPtr_front(v) == [buf |-> v.buf, idx |-> 1]

\* &(m_chunks.back())
BackPtr(v) == [buf |-> v.buf, idx |-> Len(v.elems)]

\* *p for a Chunk* p into the vector v (p must point into v's current buffer)
Deref(v, p) == v.elems[p.idx]
ValidChunkPtr(v, p) == p.buf = v.buf /\ p.idx \in DOMAIN v.elems

\* m_chunks.push_back(Chunk{}) and the reset of the pointers that follows it.
\* [ok, a]; when either allocation throws the temporary Chunk, if built, is
\* destroyed and the allocator is as before.
PushNewChunk(a, sys) ==
    LET n == NewChunk(a.heap, sys)
        pb == push_back(a.chunks, n.heap, n.chunk, sys)
    IN  IF ~n.ok THEN [ok |-> FALSE, a |-> a]
        ELSE IF ~pb.ok
        THEN [ok |-> FALSE, a |-> [a EXCEPT !.heap = DeleteChunk(pb.heap, n.chunk)]]
        ELSE LET pcur == BackPtr(pb.v)
             IN  [ok |-> TRUE,
                  a |-> [a EXCEPT !.heap = pb.heap,
                                  !.chunks = pb.v,
                                  !.pcur = pcur,
                                  !.next = BasePtr(Deref(pb.v, pcur)),
                                  !.limit = EndPtr(Deref(pb.v, pcur))]]

\* AllocString(pchBegin, pchEnd) on the characters src of [pchBegin, pchEnd).
RECURSIVE SAllocString(_, _, _, _)
SAllocString(a, src, sys, depth) ==
    LET cch == (Len(src) + 1) % SizeMod
    IN  IF cch > kMaxStringLengthCch
        THEN [a |-> a, psz |-> NULL, err |-> "AllocationTooLarge", retries |-> depth]
        ELSE IF Fits(a, cch)
        THEN LET f == FastPath(a, src, cch)
             IN  [a |-> f.a, psz |-> f.psz, err |-> "none", retries |-> depth]
        ELSE LET n == PushNewChunk(a, sys)
             IN  IF ~n.ok
                 THEN [a |-> n.a, psz |-> NULL, err |-> "OutOfMemory", retries |-> depth]
                 ELSE IF depth >= MaxDepth
                 THEN [a |-> n.a, psz |-> NULL, err |-> "diverged", retries |-> depth]
                 ELSE SAllocString(n.a, src, sys, depth + 1)

\* AllocString(pszSource) on the buffer buf at pszSource
SAllocStringSz(a, buf, sys) == SAllocString(a, Range(buf, wcslen(buf)), sys, 0)

\* AllocString(pchBegin, pchEnd) past its assertions, for a range r of
\* InvalidRanges. [a, psz, err, retries, cch]
RECURSIVE SAllocStringRange(_, _, _, _)
SAllocStringRange(a, r, sys, depth) ==
    LET cch == RangeCch(r)
    IN  IF cch > kMaxStringLengthCch
        THEN [a |-> a, psz |-> NULL, err |-> "AllocationTooLarge", retries |-> depth,
              cch |-> cch]
        ELSE IF Fits(a, cch)
        THEN FastPathOutside(a, cch, depth)
        ELSE LET n == PushNewChunk(a, sys)
             IN  IF ~n.ok
                 THEN [a |-> n.a, psz |-> NULL, err |-> "OutOfMemory", retries |-> depth,
                       cch |-> cch]
                 ELSE IF depth >= MaxDepth
                 THEN [a |-> n.a, psz |-> NULL, err |-> "diverged", retries |-> depth,
                       cch |-> cch]
                 ELSE SAllocStringRange(n.a, r, sys, depth + 1)

\* AllocString(pchBegin, pchEnd) with its assertions
SAllocStringAsserted(a, r, sys, stops) ==
    IF stops /\ ~AssertRange(r) THEN AssertionFailed(a)
    ELSE SAllocStringRange(a, r, sys, 0)

\* AllocString(pszSource) with a null pszSource
SAllocStringSzAsserted(a, pszSource, stops) ==
    IF stops /\ ~AssertSource(pszSource) THEN AssertionFailed(a)
    ELSE NullRead(a)

\* ~StringPoolAllocator() (implicit): m_chunks is destroyed, and with it every
\* Chunk; the pointer members are left as they are.
RECURSIVE DeleteChunks(_, _)
DeleteChunks(h, elems) ==
    IF elems = << >> THEN h
    ELSE DeleteChunks(DeleteChunk(h, elems[Len(elems)]), SubSeq(elems, 1, Len(elems) - 1))

SDestructor(a) ==
    [a EXCEPT !.heap = DeleteChunks(a.heap, a.chunks.elems),
              !.chunks = EmptyVector]

\* ------------------------------------------------------------------------
\* The state machine
\* ------------------------------------------------------------------------
Obj == [next |-> m_pchNext, limit |-> m_pchLimit, phdr |-> m_phdrCurrent,
        gran |-> m_cbGranularity, chunks |-> m_chunks, pcur |-> m_pCurrent,
        heap |-> heap]

Install(a) ==
    /\ m_pchNext' = a.next
    /\ m_pchLimit' = a.limit
    /\ m_phdrCurrent' = a.phdr
    /\ m_cbGranularity' = a.gran
    /\ m_chunks' = a.chunks
    /\ m_pCurrent' = a.pcur
    /\ heap' = a.heap

\* last: the operation, the characters it was to copy, the buffer passed (to
\* AllocString(pszSource) only), the required length, what it returned or
\* threw, the recursive calls it made, the blocks it obtained from the system,
\* and the outcome of the operation before it.
NoCall == [op |-> "new", src |-> << >>, buf |-> << >>, cch |-> 0, psz |-> NULL,
           err |-> "none", retries |-> 0, acquired |-> 0, prevErr |-> "none"]

\* The values passed to CStringPoolAllocator(SIZE_T); CStringPoolAllocator()
\* passes kcbDefaultMinChunkSize.
MinChunkSizes ==
    {0, kcbDefaultMinChunkSize, cbLargeMinChunkSize,
     cbHugeMinChunkSize, cbZeroGranMinChunkSize, cbWrapMinChunkSize}

\* The assertion with the default minimum chunk size taken for the floor
AssertMinChunkSize_aboveDefault(cb) == cb > kcbDefaultMinChunkSize

\* _ASSERTE(cbMinChunkSize >= 32000)
AssertMinChunkSize(cb) == cb >= kcbMinChunkFloor

\* State after construction: CStringPoolAllocator() / CStringPoolAllocator(SIZE_T)
\* or StringPoolAllocator(). _ASSERTE is compiled in debug builds only, and
\* there a failed assertion either stops the program or is ignored: when the
\* assertion of GetAllocationGranularity does not hold, the program has
\* stopped (no allocator: alive is FALSE) or has the allocator.
Init ==
    /\ \/ /\ variant = "Win32"
          /\ ctorMinChunkSize \in MinChunkSizes
          /\ m_cbGranularity = GetAllocationGranularity(ctorMinChunkSize)
          /\ alive \in IF AssertMinChunkSize(ctorMinChunkSize) THEN {TRUE} ELSE BOOLEAN
       \/ /\ variant = "STL"
          /\ ctorMinChunkSize = 0
          /\ m_cbGranularity = 0
          /\ alive = TRUE
    /\ m_pchNext = NULL
    /\ m_pchLimit = NULL
    /\ m_phdrCurrent = NULL
    /\ m_chunks = EmptyVector
    /\ m_pCurrent = NullChunkPtr
    /\ heap = InitHeap
    /\ strs = << >>
    /\ last = NoCall
    /\ nCalls = 0

\* The caller's side of a call: it keeps the pointer it got. src are the
\* characters the caller meant, buf the buffer of a call of
\* AllocString(pszSource). A division by zero ends the program.
Returned(r, src, buf) ==
    /\ Install(r.a)
    /\ strs' = IF r.err = "none" THEN Append(strs, [psz |-> r.psz, src |-> src]) ELSE strs
    /\ last' = [op |-> "AllocString", src |-> src, buf |-> buf, cch |-> Len(src) + 1,
                psz |-> r.psz, err |-> r.err, retries |-> r.retries,
                acquired |-> Len(r.a.heap.regions) - Len(heap.regions),
                prevErr |-> last.err]
    /\ nCalls' = nCalls + 1
    /\ alive' = (r.err # "DivideByZero")
    /\ UNCHANGED <<variant, ctorMinChunkSize>>

\* The string a caller of AllocString(pszSource) means: the characters of the
\* buffer before its first NUL.
Meant(buf) == Range(buf, CHOOSE n \in 0..(Len(buf) - 1) :
                           buf[n + 1] = NUL /\ \A k \in 1..n : buf[k] # NUL)

CStringPoolAllocator_AllocString ==
    /\ variant = "Win32"
    /\ alive
    /\ nCalls < MaxAllocs
    /\ \E src \in Sources, sys \in {"ok", "chunk_fail"} :
          Returned(CAllocString(Obj, src, sys, 0), src, << >>)

\* AllocString(PCWSTR pszSource)
CStringPoolAllocator_AllocStringSz ==
    /\ variant = "Win32"
    /\ alive
    /\ nCalls < MaxAllocs
    /\ \E buf \in SzSources, sys \in {"ok", "chunk_fail"} :
          Returned(CAllocStringSz(Obj, buf, sys), Meant(buf), buf)

StringPoolAllocator_AllocString ==
    /\ variant = "STL"
    /\ alive
    /\ nCalls < MaxAllocs
    /\ \E src \in Sources, sys \in SysOutcomes :
          Returned(SAllocString(Obj, src, sys, 0), src, << >>)

\* AllocString(const wchar_t* pszSource)
StringPoolAllocator_AllocStringSz ==
    /\ variant = "STL"
    /\ alive
    /\ nCalls < MaxAllocs
    /\ \E buf \in SzSources, sys \in SysOutcomes :
          Returned(SAllocStringSz(Obj, buf, sys), Meant(buf), buf)

Destroyed(a) ==
    /\ Install(a)
    /\ alive' = FALSE
    /\ last' = [NoCall EXCEPT !.op = "Destroy", !.prevErr = last.err]
    /\ UNCHANGED <<variant, ctorMinChunkSize, strs, nCalls>>

\* ~CStringPoolAllocator()
CStringPoolAllocator_Destructor ==
    /\ variant = "Win32"
    /\ alive
    /\ Destroyed(Destroy(Obj))

\* ~StringPoolAllocator()
StringPoolAllocator_Destructor ==
    /\ variant = "STL"
    /\ alive
    /\ Destroyed(SDestructor(Obj))

\* The caller's side of a call outside the contract. form is "range" for
\* AllocString(pchBegin, pchEnd) and "sz" for AllocString(pszSource), r the
\* pointers passed. A failed assertion that stops, and a fault, end the program.
ReturnedInvalid(res, form, r, stops) ==
    /\ Install(res.a)
    /\ strs' = IF res.err = "none" THEN Append(strs, [psz |-> res.psz, src |-> << >>])
               ELSE strs
    /\ last' = [op |-> "AllocStringInvalid", src |-> << >>, buf |-> << >>,
                cch |-> res.cch, psz |-> res.psz, err |-> res.err,
                retries |-> res.retries,
                acquired |-> Len(res.a.heap.regions) - Len(heap.regions),
                prevErr |-> last.err,
                form |-> form, pchBegin |-> r.pchBegin, pchEnd |-> r.pchEnd,
                stops |-> stops]
    /\ nCalls' = nCalls + 1
    /\ alive' = (res.err \notin {"AssertionFailed", "AccessViolation", "DivideByZero"})
    /\ UNCHANGED <<variant, ctorMinChunkSize>>

\* AllocString(pchBegin, pchEnd) with null pointers or pchBegin > pchEnd
CStringPoolAllocator_AllocStringInvalid ==
    /\ variant = "Win32"
    /\ alive
    /\ nCalls < MaxAllocs
    /\ \E r \in InvalidRanges, sys \in {"ok", "chunk_fail"}, stops \in BOOLEAN :
          ReturnedInvalid(CAllocStringAsserted(Obj, r, sys, stops), "range", r, stops)

\* AllocString(PCWSTR pszSource) with a null pszSource
CStringPoolAllocator_AllocStringSzInvalid ==
    /\ variant = "Win32"
    /\ alive
    /\ nCalls < MaxAllocs
    /\ \E stops \in BOOLEAN :
          ReturnedInvalid(CAllocStringSzAsserted(Obj, NULL, stops), "sz",
                          [pchBegin |-> NULL, pchEnd |-> NULL], stops)

StringPoolAllocator_AllocStringInvalid ==
    /\ variant = "STL"
    /\ alive
    /\ nCalls < MaxAllocs
    /\ \E r \in InvalidRanges, sys \in SysOutcomes, stops \in BOOLEAN :
          ReturnedInvalid(SAllocStringAsserted(Obj, r, sys, stops), "range", r, stops)

\* AllocString(const wchar_t* pszSource) with a null pszSource
StringPoolAllocator_AllocStringSzInvalid ==
    /\ variant = "STL"
    /\ alive
    /\ nCalls < MaxAllocs
    /\ \E stops \in BOOLEAN :
          ReturnedInvalid(SAllocStringSzAsserted(Obj, NULL, stops), "sz",
                          [pchBegin |-> NULL, pchEnd |-> NULL], stops)

Next ==
    \/ CStringPoolAllocator_AllocString
    \/ StringPoolAllocator_AllocString
    \/ CStringPoolAllocator_AllocStringSz
    \/ StringPoolAllocator_AllocStringSz
    \/ CStringPoolAllocator_Destructor
    \/ StringPoolAllocator_Destructor

Spec == Init /\ [][Next]_vars

\* The program with callers that also step outside the contract of AllocString
NextAnyInput ==
    \/ CStringPoolAllocator_AllocString
    \/ StringPoolAllocator_AllocString
    \/ CStringPoolAllocator_AllocStringSz
    \/ StringPoolAllocator_AllocStringSz
    \/ CStringPoolAllocator_AllocStringInvalid
    \/ StringPoolAllocator_AllocStringInvalid
    \/ CStringPoolAllocator_AllocStringSzInvalid
    \/ StringPoolAllocator_AllocStringSzInvalid
    \/ CStringPoolAllocator_Destructor
    \/ StringPoolAllocator_Destructor

SpecAnyInput == Init /\ [][NextAnyInput]_vars

\* ------------------------------------------------------------------------
\* Observations on a state
\* ------------------------------------------------------------------------
\* Free slots of the current chunk
FreeSlots == PtrDiff(m_pchLimit, m_pchNext)

\* Addresses of the chunks the allocator owns, most recent first
OwnedChunks ==
    IF variant = "Win32"
    THEN Chain(heap.hdrs, m_phdrCurrent, Len(heap.regions) + 1)
    ELSE [i \in 1..Len(m_chunks.elems) |->
             m_chunks.elems[Len(m_chunks.elems) + 1 - i].m_pool]

NumChunks == Len(OwnedChunks)

TypeOK ==
    /\ variant \in {"Win32", "STL"}
    /\ alive \in BOOLEAN
    /\ m_pchNext \in Nat /\ m_pchLimit \in Nat /\ m_phdrCurrent \in Nat
    /\ nCalls \in 0..MaxAllocs
    /\ Len(strs) <= nCalls

\* ------------------------------------------------------------------------
\* Properties
\* ------------------------------------------------------------------------
\* The per-string limit of the allocator at hand
MaxCch == IF variant = "Win32" THEN kchMaxCharAlloc ELSE kMaxStringLengthCch

\* A step that is an AllocString call
CallStep == nCalls' = nCalls + 1

\* The members of the allocator
members == <<m_pchNext, m_pchLimit, m_phdrCurrent, m_cbGranularity, m_chunks, m_pCurrent>>

\* Byte range [lo, hi) of the i-th returned string, terminator included
StrLo(i) == strs[i].psz
StrHi(i) == PtrAdd(strs[i].psz, Len(strs[i].src) + 1)
StrCells(i) == {PtrAdd(strs[i].psz, k) : k \in 0..Len(strs[i].src)}

\* The block of the system the address p lies in (0 if none)
RegionOf(p) ==
    LET hit == {i \in DOMAIN heap.regions :
                   heap.regions[i].base <= p
                   /\ p < heap.regions[i].base + heap.regions[i].cb}
    IN  IF hit = {} THEN 0 ELSE CHOOSE i \in hit : TRUE

\* C1 (round trip): while the allocator lives, every pointer AllocString has
\* returned reads back, as a NUL-terminated string, as the source it was
\* allocated from: same characters, same length. This covers the string just
\* returned and all earlier ones, after any sequence of calls.
C1_RoundTrip ==
    alive => \A i \in DOMAIN strs : ReadStr(heap.mem, strs[i].psz) = strs[i].src

\* C1 witness: a string of two characters or more, returned after another
\* string and from a second chunk, reads back as its source.
C1_Witness ==
    /\ alive
    /\ NumChunks >= 2
    /\ Len(strs) >= 2
    /\ Len(strs[Len(strs)].src) >= 2
    /\ last.err = "none" /\ last.retries = 1
    /\ ReadStr(heap.mem, last.psz) = last.src

\* C2 (non-aliasing): the storage ranges of any two returned strings are
\* disjoint, and no step of the allocator's lifetime changes a character (or
\* the terminator) of a string returned before it.
StringsDisjoint ==
    \A i, j \in DOMAIN strs : i < j => (StrHi(i) <= StrLo(j) \/ StrHi(j) <= StrLo(i))

StringsKept ==
    \A i \in DOMAIN strs : \A c \in StrCells(i) :
        c \in DOMAIN heap'.mem /\ heap'.mem[c] = heap.mem[c]

C2_NonAliasing == [][alive' => (StringsDisjoint' /\ StringsKept)]_vars

\* C2 witness: three strings, two in one chunk and one in another.
C2_Witness ==
    /\ alive
    /\ Len(strs) >= 3
    /\ \E i, j, k \in DOMAIN strs :
          /\ i < j /\ RegionOf(strs[i].psz) = RegionOf(strs[j].psz)
          /\ RegionOf(strs[k].psz) # RegionOf(strs[i].psz)
          /\ Len(strs[i].src) >= 1 /\ Len(strs[j].src) >= 1 /\ Len(strs[k].src) >= 1

\* C3 (oversize rejection), as claimed: a call whose required length exceeds
\* the per-string limit throws at the length check and leaves the allocator
\* and the memory as they were, whatever the free space of the current chunk.
C3_OversizeRejected ==
    [][(CallStep /\ last'.cch > MaxCch)
          => (last'.err = "AllocationTooLarge" /\ UNCHANGED <<members, heap, strs>>)]_vars

\* C4 (out-of-memory atomicity): a call that fails for lack of memory leaves
\* next, limit, current and the chunk collection as they were and the returned
\* strings intact; a call that follows such a failure and whose required length
\* fits in the free slots of the current chunk succeeds on the fast path.
C4_OutOfMemoryAtomic ==
    [][/\ (CallStep /\ last'.err = "OutOfMemory")
            => (UNCHANGED members /\ OwnedChunks' = OwnedChunks /\ StringsKept
                /\ last'.psz = NULL)
       /\ (CallStep /\ last.err = "OutOfMemory" /\ last'.cch <= FreeSlots)
            => (last'.err = "none" /\ last'.retries = 0 /\ last'.acquired = 0
                /\ last'.psz = m_pchNext /\ OwnedChunks' = OwnedChunks)]_vars

\* C4 witness: with strings already returned, a call failed for lack of memory
\* and the next call was served from the old current chunk.
C4_Witness ==
    /\ alive
    /\ last.op = "AllocString"
    /\ last.prevErr = "OutOfMemory"
    /\ last.err = "none" /\ last.retries = 0
    /\ Len(strs) >= 2

\* C5 (teardown): no block is ever released twice, and once the allocator is
\* destroyed every block obtained from the system has been released exactly
\* once: the first chunk, the current chunk and those between.
C5_TeardownSafety ==
    /\ \A i \in DOMAIN heap.regions : heap.regions[i].released <= 1
    /\ ~alive => \A i \in DOMAIN heap.regions : heap.regions[i].released = 1
    /\ ~heap.uaf

\* C5 witness: a destroyed allocator that had acquired three chunks.
C5_Witness ==
    /\ ~alive
    /\ Len(heap.regions) >= 3
    /\ \A i \in DOMAIN heap.regions : heap.regions[i].released = 1

\* C6 (lazy acquisition, capacity boundary), as claimed: a call adds a chunk
\* only when its required length exceeds the free slots of the current chunk;
\* a call whose required length equals the free slots succeeds and adds no
\* chunk; a call whose required length is one more, and within the per-string
\* limit, adds exactly one chunk. A fresh allocator owns no chunk. (Read with
\* the system providing the memory asked for, its refusal being the matter of
\* C4, and with a granularity that is not zero, the matter of C19.)
C6_CapacityBoundary_Claimed ==
    [][/\ (nCalls = 0 => NumChunks = 0)
       /\ CallStep =>
            /\ (NumChunks' # NumChunks \/ last'.acquired > 0) => last'.cch > FreeSlots
            /\ last'.cch = FreeSlots => (last'.err = "none" /\ NumChunks' = NumChunks)
            /\ (last'.cch = FreeSlots + 1 /\ last'.cch <= MaxCch
                   /\ last'.err \notin {"OutOfMemory", "DivideByZero"})
                 => NumChunks' = NumChunks + 1]_vars

\* C6, amended: a call adds a chunk only when its required length exceeds the
\* free slots of the current chunk; a call whose required length equals the
\* free slots and is within the per-string limit succeeds on the fast path and
\* adds no chunk; a call whose required length is one more, and within the
\* limit, adds exactly one chunk and succeeds, unless the system refuses the
\* memory, or the granularity of the allocator is zero and RoundUp divides by
\* it: then the call fails and adds none. A fresh allocator owns no chunk.
C6_CapacityBoundary ==
    [][/\ (nCalls = 0 => NumChunks = 0)
       /\ CallStep =>
            /\ (NumChunks' # NumChunks \/ last'.acquired > 0) => last'.cch > FreeSlots
            /\ (last'.cch = FreeSlots /\ last'.cch <= MaxCch)
                 => (last'.err = "none" /\ last'.retries = 0 /\ last'.acquired = 0
                     /\ NumChunks' = NumChunks)
            /\ (last'.cch = FreeSlots + 1 /\ last'.cch <= MaxCch)
                 => \/ last'.err = "none" /\ NumChunks' = NumChunks + 1
                                          /\ last'.retries = 1
                    \/ last'.err = "OutOfMemory" /\ NumChunks' = NumChunks
                    \/ last'.err = "DivideByZero" /\ m_cbGranularity = 0
                                                  /\ NumChunks' = NumChunks]_vars

\* C6 witness: a string that took exactly the free slots left in a chunk that
\* already held a string, with no retry and no new chunk.
C6_Witness ==
    /\ alive
    /\ last.err = "none" /\ last.retries = 0 /\ last.acquired = 0
    /\ Len(strs) >= 2
    /\ last.cch >= 2
    /\ FreeSlots = 0

\* C7 (monotonic growth): no step within the allocator's lifetime, successful
\* or failed, removes a chunk from those the allocator owns: the chunks owned
\* before the step are the oldest of the chunks owned after it.
IsSuffix(s, t) == Len(s) <= Len(t) /\ s = SubSeq(t, Len(t) - Len(s) + 1, Len(t))

C7_MonotonicGrowth ==
    [][alive' => (NumChunks' >= NumChunks /\ IsSuffix(OwnedChunks, OwnedChunks'))]_vars

\* C7 witness: an allocator owning three chunks after a failed call.
C7_Witness ==
    /\ alive
    /\ NumChunks >= 3
    /\ last.err # "none"

\* C8 (at most one retry): a call whose required length is within the
\* per-string limit makes at most one recursive call and obtains at most one
\* block; when it has obtained one, the retry succeeds. It fails only for lack
\* of memory, or, with a granularity of zero, by the division in RoundUp
\* before any block is asked for.
C8_AtMostOneRetry ==
    (last.op = "AllocString" /\ last.cch <= MaxCch) =>
        /\ last.retries <= 1
        /\ last.acquired <= 1
        /\ last.err \in {"none", "OutOfMemory", "DivideByZero"}
        /\ last.err = "DivideByZero" => (m_cbGranularity = 0 /\ last.acquired = 0)
        /\ last.retries = 1 => (last.err = "none" /\ last.psz # NULL)

\* C8 witness: CStringPoolAllocator with the default minimum chunk size served
\* a string longer than that size from a new chunk, after one retry.
C8_Witness ==
    /\ variant = "Win32"
    /\ m_cbGranularity = GetAllocationGranularity(kcbDefaultMinChunkSize)
    /\ last.op = "AllocString"
    /\ last.cch * sizeofWCHAR > kcbDefaultMinChunkSize
    /\ last.cch <= MaxCch
    /\ last.retries = 1 /\ last.err = "none"

\* C9 (cursor invariant): next <= limit in every state, and while the
\* allocator lives and has a current chunk, next lies within the character
\* storage of that chunk and limit is its end.
HasCurrent ==
    IF variant = "Win32" THEN m_phdrCurrent # NULL ELSE m_pCurrent # NullChunkPtr

ChunkStart ==
    IF variant = "Win32" THEN m_phdrCurrent + sizeofChunkHeader
    ELSE BasePtr(Deref(m_chunks, m_pCurrent))

ChunkEnd ==
    IF variant = "Win32" THEN m_phdrCurrent + heap.hdrs[m_phdrCurrent].cbSize
    ELSE EndPtr(Deref(m_chunks, m_pCurrent))

C9_CursorInvariant ==
    /\ m_pchNext <= m_pchLimit
    /\ (alive /\ HasCurrent) =>
          /\ variant = "STL" => ValidChunkPtr(m_chunks, m_pCurrent)
          /\ ChunkStart <= m_pchNext
          /\ m_pchLimit = ChunkEnd
          /\ \A i \in 0..(FreeSlots - 1) : PtrAdd(m_pchNext, i) \in DOMAIN heap.mem
    /\ (~alive /\ variant = "Win32") => (m_pchNext = NULL /\ m_pchLimit = NULL)

\* C9 witness: after a failed call, the cursor is strictly inside the current
\* chunk.
C9_Witness ==
    /\ alive /\ HasCurrent
    /\ last.op = "AllocString" /\ last.err # "none"
    /\ ChunkStart < m_pchNext /\ m_pchNext < m_pchLimit

\* The most recently acquired block that has not been released (0 if none)
NewestChunk ==
    LET own == {i \in DOMAIN heap.regions : heap.regions[i].released = 0}
    IN  IF own = {} THEN NULL
        ELSE heap.regions[CHOOSE i \in own : \A j \in own : j <= i].base

CurrentIsNewest ==
    IF variant = "Win32" THEN m_phdrCurrent = NewestChunk
    ELSE /\ ValidChunkPtr(m_chunks, m_pCurrent)
         /\ m_pCurrent.idx = Len(m_chunks.elems)
         /\ Deref(m_chunks, m_pCurrent).m_pool = NewestChunk

\* C10, as claimed: once the first AllocString call has been made, the
\* current-chunk reference is non-null for the rest of the lifetime; when
\* non-null it identifies the most recently acquired chunk.
C10_CurrentAfterFirstCall_Claimed ==
    alive => /\ (nCalls >= 1 => HasCurrent)
             /\ (HasCurrent => CurrentIsNewest)

\* C10, amended: the current-chunk reference is null exactly until the first
\* AllocString call that acquires a chunk (a first call that fails leaves it
\* null); once a call has succeeded it is non-null for the rest of the
\* lifetime, and when non-null it identifies the most recently acquired chunk
\* of the collection.
C10_CurrentAfterFirstChunk ==
    alive => /\ (Len(strs) >= 1 => HasCurrent)
             /\ (HasCurrent <=> NumChunks >= 1)
             /\ (HasCurrent => CurrentIsNewest)

\* C10 witness: with two chunks owned and a string returned, a call has just
\* failed; the reference still identifies the newest chunk.
C10_Witness ==
    /\ alive
    /\ NumChunks >= 2
    /\ Len(strs) >= 1
    /\ last.err = "OutOfMemory"
    /\ HasCurrent /\ CurrentIsNewest

\* The least multiple of units that is at least cb, in the integers
LeastMultiple(cb, units) ==
    units * (CHOOSE k \in 0..cb : k * units >= cb /\ \A j \in 0..(k - 1) : j * units < cb)

\* Bytes a chunk for a string of cch slots needs: the slots and the header
NeededBytes(cch) == cch * sizeofWCHAR + sizeofChunkHeader

\* C11 (chunk sizing): every block CStringPoolAllocator has acquired has a size
\* that is a positive multiple of the allocator's granularity, and the block a
\* call has acquired is the least multiple of the granularity that holds the
\* required length in WCHARs plus the chunk header. (StringPoolAllocator's
\* unit is its fixed chunk: every block is kChunkSizeCch WCHARs.)
C11_ChunkSizing ==
    /\ variant = "Win32" =>
          /\ \A i \in DOMAIN heap.regions :
                /\ m_cbGranularity > 0
                /\ heap.regions[i].cb > 0
                /\ heap.regions[i].cb % m_cbGranularity = 0
          /\ (last.op = "AllocString" /\ last.acquired > 0) =>
                /\ last.acquired = 1
                /\ heap.regions[Len(heap.regions)].cb
                      = LeastMultiple(NeededBytes(last.cch), m_cbGranularity)
    /\ variant = "STL" =>
          \A i \in DOMAIN heap.regions :
              heap.regions[i].cb = kChunkSizeCch * sizeofWCHAR

\* C11 witness: CStringPoolAllocator has acquired a chunk of two granules or
\* more for a string whose needed bytes are no multiple of the granularity,
\* after a chunk of another size.
C11_Witness ==
    /\ variant = "Win32"
    /\ last.op = "AllocString" /\ last.acquired = 1
    /\ Len(heap.regions) >= 2
    /\ heap.regions[Len(heap.regions)].cb >= 2 * m_cbGranularity
    /\ heap.regions[Len(heap.regions)].cb # heap.regions[1].cb
    /\ NeededBytes(last.cch) % m_cbGranularity # 0

\* Character storage of the chunks the allocator owns, most recent first, as
\* the allocator records it: first slot and number of slots
Storages ==
    IF variant = "Win32"
    THEN LET ch == OwnedChunks
         IN  [i \in 1..Len(ch) |->
                [start |-> ch[i] + sizeofChunkHeader,
                 slots |-> PtrDiff(ch[i] + heap.hdrs[ch[i]].cbSize,
                                   ch[i] + sizeofChunkHeader)]]
    ELSE [i \in 1..Len(m_chunks.elems) |->
            LET c == m_chunks.elems[Len(m_chunks.elems) + 1 - i]
            IN  [start |-> BasePtr(c), slots |-> PtrDiff(EndPtr(c), BasePtr(c))]]

\* First slot and number of slots of the character storage of the owned
\* chunk at address p (the address of its header, or of its m_pool)
StorageStart(p) == IF variant = "Win32" THEN p + sizeofChunkHeader ELSE p

SlotsOf(hdrs, elems, p) ==
    IF variant = "Win32"
    THEN PtrDiff(p + hdrs[p].cbSize, p + sizeofChunkHeader)
    ELSE LET c == CHOOSE c \in {elems[i] : i \in DOMAIN elems} : c.m_pool = p
         IN  PtrDiff(EndPtr(c), BasePtr(c))

ChunkSlots(p) == SlotsOf(heap.hdrs, m_chunks.elems, p)

StorageCells(st) == {PtrAdd(st.start, k) : k \in 0..(st.slots - 1)}

\* C12 (chunk stability): no step of the allocator's lifetime changes the
\* address or the capacity of the character storage of a chunk it owns, and
\* the storage stays allocated: this holds when the vector of Chunk objects
\* grows and moves the objects to a new buffer. Every pointer returned keeps
\* pointing into the storage of a chunk the allocator owns, at the same
\* characters.
C12_ChunkStability ==
    [][alive' =>
         LET ch == OwnedChunks
         IN  /\ IsSuffix(ch, OwnedChunks')
             /\ \A i \in DOMAIN ch :
                   /\ SlotsOf(heap'.hdrs, m_chunks'.elems, ch[i]) = ChunkSlots(ch[i])
                   /\ ~Released(heap', ch[i])
             /\ \A i \in DOMAIN strs :
                   /\ \E j \in DOMAIN ch :
                         /\ StorageStart(ch[j]) <= StrLo(i)
                         /\ StrHi(i) <= PtrAdd(StorageStart(ch[j]), ChunkSlots(ch[j]))
                   /\ \A c \in StrCells(i) :
                         c \in DOMAIN heap'.mem /\ heap'.mem[c] = heap.mem[c]]_vars

\* C12 witness: the vector of StringPoolAllocator has grown and moved a Chunk
\* object to a new buffer; a string returned from the oldest chunk is still in
\* that chunk's storage and reads back.
C12_Witness ==
    /\ alive
    /\ variant = "STL"
    /\ m_chunks.buf >= 2
    /\ NumChunks >= 2
    /\ strs # << >>
    /\ StrCells(1) \subseteq StorageCells(Storages[NumChunks])
    /\ Len(strs[1].src) >= 1
    /\ ReadStr(heap.mem, strs[1].psz) = strs[1].src

\* AllocString(pchBegin, pchEnd) of the allocator at hand on the characters src
RangeForm(src, sys) ==
    IF variant = "Win32" THEN CAllocString(Obj, src, sys, 0)
    ELSE SAllocString(Obj, src, sys, 0)

\* C13 (the NUL-terminated form): a call AllocString(source) has the effect of
\* the call AllocString(source, source + length_of(source)) made in the same
\* state, length_of being the number of characters before the first NUL: the
\* same returned address, the same stored content, the same resulting members
\* and memory, the same error.
C13_SzFormIsRangeForm ==
    [][(CallStep /\ last'.buf # << >>) =>
          \E sys \in SysOutcomes :
             LET r == RangeForm(Meant(last'.buf), sys)
             IN  /\ last'.psz = r.psz
                 /\ last'.err = r.err
                 /\ members' = <<r.a.next, r.a.limit, r.a.phdr, r.a.gran,
                                 r.a.chunks, r.a.pcur>>
                 /\ heap' = r.a.heap
                 /\ r.err = "none" =>
                       ReadStr(heap'.mem, last'.psz) = Meant(last'.buf)]_vars

\* C13 witness: AllocString(source) on a buffer that holds characters after
\* its first NUL has returned, after an earlier string, a copy of the
\* characters before that NUL.
C13_Witness ==
    /\ alive
    /\ last.op = "AllocString" /\ last.err = "none"
    /\ last.buf # << >>
    /\ Len(last.buf) > Len(last.src) + 1
    /\ Len(last.src) >= 1
    /\ Len(strs) >= 2
    /\ ReadStr(heap.mem, last.psz) = Meant(last.buf)

\* The program has stopped at the assertion of the constructor
StoppedAtConstruction == ~alive /\ last.op = "new"

\* C14, as claimed: a CStringPoolAllocator constructed with a minimum chunk
\* size below the floor of 32000 bytes (0 included) is rejected: no AllocString
\* call on it ever returns a string.
C14_SmallMinChunkRejected_Claimed ==
    (variant = "Win32" /\ ctorMinChunkSize < kcbMinChunkFloor) =>
        (strs = << >> /\ NumChunks = 0)

\* C14, amended: a minimum chunk size below the floor fails only an assertion
\* of the constructor, and no other value fails it. Where the assertion stops
\* the program no call is ever made; where it is compiled out or ignored the
\* allocator is constructed, its granularity is the least multiple of the
\* system allocation granularity that holds the header and the value, and the
\* strings it returns read back as their sources.
C14_SmallMinChunkAsserted ==
    variant = "Win32" =>
        /\ StoppedAtConstruction =>
              (ctorMinChunkSize < kcbMinChunkFloor /\ nCalls = 0 /\ strs = << >>)
        /\ (ctorMinChunkSize < kcbMinChunkFloor /\ ~StoppedAtConstruction) =>
              /\ m_cbGranularity
                    = LeastMultiple(sizeofChunkHeader + ctorMinChunkSize,
                                    dwAllocationGranularity)
              /\ m_cbGranularity > 0
              /\ alive =>
                    \A i \in DOMAIN strs :
                        ReadStr(heap.mem, strs[i].psz) = strs[i].src
              /\ last.op = "AllocString" =>
                    last.err \in {"none", "AllocationTooLarge", "OutOfMemory"}

\* C14 witness: a CStringPoolAllocator constructed with a minimum chunk size
\* of 0 has returned two strings from two chunks.
C14_Witness ==
    /\ variant = "Win32"
    /\ ctorMinChunkSize = 0
    /\ alive
    /\ Len(strs) >= 2
    /\ NumChunks >= 2
    /\ last.err = "none"
    /\ ReadStr(heap.mem, last.psz) = last.src

\* The scenario of C15: two calls made, both successful, for "ab" and then
\* "cdefghijklmno", on an allocator whose first chunk has 16 slots
ScenarioRun ==
    /\ alive
    /\ nCalls = 2 /\ Len(strs) = 2
    /\ strs[1].src = <<"a", "b">>
    /\ strs[2].src = SubSeq(Letters, 1, 13)
    /\ NumChunks >= 1
    /\ Storages[NumChunks].slots = 16

\* C15 (concrete scenario): with chunks of exactly 16 slots, "ab" takes 3 slots
\* of the first chunk; "cdefghijklmno" needs 14, which with those 3 is more
\* than 16, so it is served from the start of a second chunk after one retry:
\* the allocator owns exactly two chunks and both strings read back.
C15_ConcreteScenario ==
    ScenarioRun =>
        /\ NumChunks = 2
        /\ strs[1].psz = Storages[2].start
        /\ strs[2].psz = Storages[1].start
        /\ last.retries = 1 /\ last.acquired = 1
        /\ FreeSlots = Storages[1].slots - 14
        /\ ReadStr(heap.mem, strs[1].psz) = <<"a", "b">>
        /\ ReadStr(heap.mem, strs[2].psz) = SubSeq(Letters, 1, 13)

\* C15 witness: the scenario has run, and the second chunk has 16 slots too.
C15_Witness ==
    /\ ScenarioRun
    /\ NumChunks = 2
    /\ Storages[1].slots = 16
    /\ ReadStr(heap.mem, strs[2].psz) = SubSeq(Letters, 1, 13)

\* A step that is the destruction of the allocator
DestroyStep == alive /\ ~alive' /\ last'.op = "Destroy"

\* The walk of Destroy over the chunks ch: the header of each is read, then
\* its block released, in the order of ch
TeardownTrace(ch) ==
    [k \in 1..(2 * Len(ch)) |->
        IF k % 2 = 1 THEN [op |-> "read", p |-> ch[(k + 1) \div 2]]
        ELSE [op |-> "free", p |-> ch[k \div 2]]]

\* C16 (teardown ordering): the destruction of a CStringPoolAllocator walks
\* the chain from the current chunk through the previous links to the null
\* link; for each chunk it reads the header (and so the previous link) before
\* it releases the chunk; no chunk is read or released after its release; and
\* afterwards next, limit and current are null.
C16_TeardownOrdering ==
    [][(DestroyStep /\ variant = "Win32") =>
         LET ch == OwnedChunks
             tr == heap'.trace
         IN  /\ (ch # << >>) => ch[1] = m_phdrCurrent
             /\ \A i \in DOMAIN ch :
                   heap.hdrs[ch[i]].phdrPrev = (IF i < Len(ch) THEN ch[i + 1] ELSE NULL)
             /\ tr = TeardownTrace(ch)
             /\ \A j, k \in DOMAIN tr : (j < k /\ tr[j].op = "free") => tr[k].p # tr[j].p
             /\ ~heap'.uaf
             /\ \A i \in DOMAIN heap'.regions : heap'.regions[i].released = 1
             /\ m_pchNext' = NULL /\ m_pchLimit' = NULL /\ m_phdrCurrent' = NULL]_vars

\* C16 witness: a CStringPoolAllocator that owned three chunks has been
\* destroyed: three reads and three releases, the newest chunk first.
C16_Witness ==
    /\ variant = "Win32"
    /\ ~alive /\ last.op = "Destroy"
    /\ Len(heap.trace) = 6
    /\ heap.trace[1] = [op |-> "read", p |-> heap.regions[3].base]
    /\ heap.trace[6] = [op |-> "free", p |-> heap.regions[1].base]
    /\ m_pchNext = NULL /\ m_pchLimit = NULL /\ m_phdrCurrent = NULL

\* What the fast path does to the allocator, seen on a step: the address
\* returned is the old next, next moves by the required length, and limit,
\* current and the chunks stay; a string returned this way after another
\* begins where that one ended.
FastPathEffect ==
    /\ last'.err = "none" /\ last'.retries = 0 /\ last'.acquired = 0
    /\ last'.psz = m_pchNext
    /\ m_pchNext' = PtrAdd(m_pchNext, last'.cch)
    /\ UNCHANGED <<m_pchLimit, m_phdrCurrent, m_cbGranularity, m_chunks, m_pCurrent>>
    /\ OwnedChunks' = OwnedChunks
    /\ strs # << >> => last'.psz = StrHi(Len(strs))

\* C17, as claimed: a call whose required length is at most limit - next
\* has the effect of the fast path.
C17_FastPathEffect_Claimed ==
    [][(CallStep /\ last'.cch <= FreeSlots) => FastPathEffect]_vars

\* C17, amended: a call whose required length is at most limit - next and
\* within the per-string limit has the effect of the fast path (an empty
\* source takes one slot). A longer one that fits is rejected by
\* StringPoolAllocator, which changes nothing, and is served by the fast path
\* of CStringPoolAllocator.
C17_FastPathEffect ==
    [][(CallStep /\ last'.cch <= FreeSlots) =>
          /\ (last'.cch <= MaxCch \/ variant = "Win32") => FastPathEffect
          /\ (last'.cch > MaxCch /\ variant = "STL") =>
                (last'.err = "AllocationTooLarge" /\ UNCHANGED <<members, heap, strs>>)
          /\ (last'.src = << >> /\ last'.err = "none") =>
                m_pchNext' = PtrAdd(m_pchNext, 1)]_vars

\* C17 witness: an empty source has taken, on the fast path, the one slot
\* that follows a string of two characters or more, in a chunk with free
\* slots left.
C17_Witness ==
    /\ alive
    /\ last.op = "AllocString" /\ last.err = "none"
    /\ last.retries = 0 /\ last.acquired = 0
    /\ last.src = << >>
    /\ Len(strs) >= 2
    /\ Len(strs[Len(strs) - 1].src) >= 2
    /\ last.psz = StrHi(Len(strs) - 1)
    /\ m_pchNext = PtrAdd(last.psz, 1)
    /\ FreeSlots >= 1

\* C18 (zero tail): while the allocator lives, every slot of [next, limit) is
\* allocated and holds NUL: the storage is zeroed when acquired and written
\* only below next. So the assertion psz[cch - 1] == NUL of the fast path never
\* fails, and every string returned ends with a NUL that no call has written.
C18_ZeroTail ==
    /\ (alive /\ HasCurrent) =>
          \A i \in 0..(FreeSlots - 1) :
              /\ PtrAdd(m_pchNext, i) \in DOMAIN heap.mem
              /\ heap.mem[PtrAdd(m_pchNext, i)] = NUL
    /\ ~heap.asrt
    /\ alive =>
          \A i \in DOMAIN strs :
              /\ PtrAdd(strs[i].psz, Len(strs[i].src)) \in DOMAIN heap.mem
              /\ heap.mem[PtrAdd(strs[i].psz, Len(strs[i].src))] = NUL

\* C18 witness: a string of one character or more has been returned by the
\* fast path behind another string; its terminator is NUL and free slots
\* remain in the chunk.
C18_Witness ==
    /\ alive /\ HasCurrent
    /\ last.op = "AllocString" /\ last.err = "none" /\ last.retries = 0
    /\ Len(strs) >= 2
    /\ Len(last.src) >= 1
    /\ heap.mem[PtrAdd(last.psz, Len(last.src))] = NUL
    /\ FreeSlots >= 2
    /\ ~heap.asrt

\* C19, as claimed: the granularity of a CStringPoolAllocator is a multiple of
\* the system allocation granularity and at least the header size plus the
\* minimum chunk size it was constructed with, so every chunk it has acquired
\* provides at least that minimum of character storage.
C19_GranularityFloor ==
    variant = "Win32" =>
        /\ m_cbGranularity % dwAllocationGranularity = 0
        /\ m_cbGranularity >= sizeofChunkHeader + ctorMinChunkSize
        /\ \A i \in DOMAIN heap.regions :
              heap.regions[i].cb - sizeofChunkHeader >= ctorMinChunkSize

\* Free slots behind the last string of the storage st
TailSlots(st) ==
    LET inside == {i \in DOMAIN strs : StrCells(i) \subseteq StorageCells(st)}
        used == IF inside = {} THEN st.start
                ELSE StrHi(CHOOSE i \in inside : \A j \in inside : StrHi(j) <= StrHi(i))
    IN  PtrDiff(PtrAdd(st.start, st.slots), used)

\* C20 (no reuse of abandoned space): a successful call places its string in
\* the chunk that is current when it returns, which is the chunk acquired
\* last; while the chunks stay the same the cursor does not move back; and no
\* call writes to the storage of a chunk that is not the current one: the free
\* tail of an earlier chunk stays unused.
C20_NoReuse ==
    [][CallStep =>
         /\ last'.err = "none" =>
               /\ HasCurrent' /\ CurrentIsNewest'
               /\ ChunkStart' <= last'.psz
               /\ PtrAdd(last'.psz, last'.cch) <= ChunkEnd'
         /\ NumChunks' = NumChunks => m_pchNext' >= m_pchNext
         /\ \A c \in DOMAIN heap.mem :
               (HasCurrent' => ~(ChunkStart' <= c /\ c < ChunkEnd')) =>
                   (c \in DOMAIN heap'.mem /\ heap'.mem[c] = heap.mem[c])]_vars

\* C20 witness: a string was placed in the current chunk by the fast path
\* although an earlier chunk has a free tail that would hold it.
C20_Witness ==
    /\ alive
    /\ NumChunks >= 2
    /\ last.op = "AllocString" /\ last.err = "none" /\ last.retries = 0
    /\ {PtrAdd(last.psz, k) : k \in 0..(last.cch - 1)} \subseteq StorageCells(Storages[1])
    /\ \E j \in 2..NumChunks : TailSlots(Storages[j]) >= last.cch

\* The blocks obtained from the system, the most recent first
AcquiredNewestFirst ==
    [i \in 1..Len(heap.regions) |-> heap.regions[Len(heap.regions) + 1 - i]]

\* C21 (chain well-formedness): while a CStringPoolAllocator lives, the walk
\* from m_phdrCurrent through the phdrPrev links visits every block acquired
\* so far exactly once, the most recent first, and ends at the null link of
\* the first chunk; the cbSize of each header is the size of its own block.
C21_ChainWellFormed ==
    (alive /\ variant = "Win32") =>
        LET acq == AcquiredNewestFirst
            ch == Chain(heap.hdrs, m_phdrCurrent, 2 * Len(heap.regions) + 2)
        IN  /\ ch = [i \in 1..Len(acq) |-> acq[i].base]
            /\ \A i, j \in DOMAIN ch : i # j => ch[i] # ch[j]
            /\ (ch = << >>) <=> (m_phdrCurrent = NULL)
            /\ \A i \in DOMAIN ch :
                  /\ ch[i] \in DOMAIN heap.hdrs
                  /\ heap.hdrs[ch[i]].cbSize = acq[i].cb
                  /\ heap.hdrs[ch[i]].phdrPrev
                        = (IF i < Len(ch) THEN acq[i + 1].base ELSE NULL)
                  /\ acq[i].released = 0

\* C21 witness: a chain of three chunks of which two have different sizes,
\* after a call that failed.
C21_Witness ==
    /\ alive /\ variant = "Win32"
    /\ Len(heap.regions) = 3
    /\ Chain(heap.hdrs, m_phdrCurrent, 8)
          = <<heap.regions[3].base, heap.regions[2].base, heap.regions[1].base>>
    /\ heap.hdrs[heap.regions[1].base].phdrPrev = NULL
    /\ heap.hdrs[m_phdrCurrent].cbSize # heap.hdrs[heap.regions[1].base].cbSize
    /\ last.err # "none"

\* A step that is an AllocString call outside the contract
InvalidCallStep == nCalls' = nCalls + 1 /\ last'.op = "AllocStringInvalid"

\* The allocator and the memory, but for the record of a failed assertion
Untouched ==
    /\ UNCHANGED members
    /\ heap' = [heap EXCEPT !.asrt = heap'.asrt]

=============================================================================
